---- MODULE Spec2Model ----
(***************************************************************************)
(* One invocation of either command-line program of iot-jobs-cli:         *)
(*   cli/iot-jobs-cli.py          (devices create/get/delete/search)      *)
(*   cli/iot-jobs-mongodb-cli.py  (collection, index, validator groups)   *)
(* The state is what one process run leaves behind: what it wrote, in     *)
(* order, to standard output and standard error, the requests it handed   *)
(* to the generated API client, and its exit status.                      *)
(***************************************************************************)
EXTENDS Integers, Sequences, FiniteSets, TLC

(***************************************************************************)
(* Python values.  Every value is a record with a kind field, so values   *)
(* of different Python types are comparable.                              *)
(***************************************************************************)
None == [kind |-> "None"]

PyStr(s) == [kind |-> "str", tok |-> s]

PyInt(s) == [kind |-> "int", tok |-> s]

PyBool(s) == [kind |-> "bool", tok |-> s]

PyList(items) == [kind |-> "list", items |-> items]

PyDict(members) == [kind |-> "dict", members |-> members]

EmptyMembers == [k \in {} |-> None]

\* d[k] = v for a dict under construction; a repeated key keeps the last value
Put(members, k, v) == (k :> v) @@ members

(***************************************************************************)
(* JSON text.  A JSON string is the sequence of its lexical tokens        *)
(* (whitespace dropped); the empty sequence is the empty string.  A       *)
(* string literal is written as its content, the punctuation and the      *)
(* literals 1, true, null as themselves.  Any other token is text that    *)
(* is not JSON.                                                           *)
(***************************************************************************)
RecognizedKeys == {"imei", "created_at", "updated_at", "last_seen_at", "job_queue"}

SubFields == {"in", "gte", "lte", "is_empty", "contains_any"}

StringToks == RecognizedKeys \cup SubFields \cup {"error", "code", "message", "zzz", "x", "d1", "d2", "name", "ASCENDING"}

ParseFail == [ok |-> FALSE, val |-> None, next |-> 0]

ParseOk(v, n) == [ok |-> TRUE, val |-> v, next |-> n]

RECURSIVE ParseValue(_, _)
RECURSIVE ParseMembers(_, _, _, _)
RECURSIVE ParseItems(_, _, _, _)

\* the members of an object after its opening brace (or after a comma)
ParseMembers(toks, i, acc, first) ==
    IF i > Len(toks) THEN ParseFail
    ELSE IF toks[i] = "}" THEN (IF first THEN ParseOk(PyDict(acc), i + 1) ELSE ParseFail)
    ELSE IF toks[i] \in StringToks /\ i + 1 <= Len(toks) /\ toks[i + 1] = ":"
    THEN LET r == ParseValue(toks, i + 2) IN
         IF ~r.ok \/ r.next > Len(toks) THEN ParseFail
         ELSE IF toks[r.next] = "," THEN ParseMembers(toks, r.next + 1, Put(acc, toks[i], r.val), FALSE)
         ELSE IF toks[r.next] = "}" THEN ParseOk(PyDict(Put(acc, toks[i], r.val)), r.next + 1)
         ELSE ParseFail
    ELSE ParseFail

\* the items of an array after its opening bracket (or after a comma)
ParseItems(toks, i, acc, first) ==
    IF i > Len(toks) THEN ParseFail
    ELSE IF toks[i] = "]" THEN (IF first THEN ParseOk(PyList(acc), i + 1) ELSE ParseFail)
    ELSE LET r == ParseValue(toks, i) IN
         IF ~r.ok \/ r.next > Len(toks) THEN ParseFail
         ELSE IF toks[r.next] = "," THEN ParseItems(toks, r.next + 1, Append(acc, r.val), FALSE)
         ELSE IF toks[r.next] = "]" THEN ParseOk(PyList(Append(acc, r.val)), r.next + 1)
         ELSE ParseFail

ParseValue(toks, i) ==
    IF i > Len(toks) THEN ParseFail
    ELSE CASE toks[i] = "{" -> ParseMembers(toks, i + 1, EmptyMembers, TRUE)
           [] toks[i] = "[" -> ParseItems(toks, i + 1, <<>>, TRUE)
           [] toks[i] \in StringToks -> ParseOk(PyStr(toks[i]), i + 1)
           [] toks[i] = "1" -> ParseOk(PyInt("1"), i + 1)
           [] toks[i] = "true" -> ParseOk(PyBool("true"), i + 1)
           [] toks[i] = "null" -> ParseOk(None, i + 1)
           [] OTHER -> ParseFail

\* json.loads: the value, or JSONDecodeError (ok = FALSE) when the text is
\* not exactly one JSON value
json_loads(toks) ==
    LET r == ParseValue(toks, 1) IN
    IF r.ok /\ r.next = Len(toks) + 1 THEN [ok |-> TRUE, val |-> r.val]
    ELSE [ok |-> FALSE, val |-> None]


(***************************************************************************)
(* Python operations on parsed values that the filter construction uses.  *)
(* Each gives raised = TRUE where Python raises TypeError, KeyError or    *)
(* AttributeError.                                                        *)
(***************************************************************************)
Value(v) == [raised |-> FALSE, val |-> v]

Raise == [raised |-> TRUE, val |-> None]

\* k in v.  No string token of StringToks contains a recognized key as a
\* proper substring, so substring search on a str is equality here.
PyIn(k, v) ==
    CASE v.kind = "dict" -> [raised |-> FALSE, val |-> k \in DOMAIN v.members]
      [] v.kind = "list" -> [raised |-> FALSE, val |-> \E i \in 1..Len(v.items) : v.items[i] = PyStr(k)]
      [] v.kind = "str" -> [raised |-> FALSE, val |-> v.tok = k]
      [] OTHER -> [raised |-> TRUE, val |-> FALSE]

\* v[k]
PyGetItem(v, k) ==
    IF v.kind = "dict" /\ k \in DOMAIN v.members THEN Value(v.members[k]) ELSE Raise

\* v.get(f)
PyGet(v, f) ==
    IF v.kind # "dict" THEN Raise
    ELSE IF f \in DOMAIN v.members THEN Value(v.members[f]) ELSE Value(None)

(***************************************************************************)
(* What a process run emits, in order.  ch is the stream; the pseudo      *)
(* stream "sys" records the steps that are not output: constructing the   *)
(* client, binding the command line, calling a client method.             *)
(***************************************************************************)
Out(what) == [ch |-> "stdout", what |-> what]

Err(what) == [ch |-> "stderr", what |-> what]

Sys(what) == [ch |-> "sys", what |-> what]

\* the effect of a function body: what it wrote, what it sent, how it ended
\* (raised is "none", "ApiException", "Exception" or "SystemExit")
Effect(io, requests, raised, exc) == [io |-> io, requests |-> requests, raised |-> raised, exc |-> exc]

\* the end of the process
Exited(io, requests, code, via) == [io |-> io, requests |-> requests, code |-> code, via |-> via]

(***************************************************************************)
(* The generated client.  A call returns a result of n elements, raises   *)
(* ApiException(status, reason, body) or raises some other exception.     *)
(* modelOk: ErrorModel accepts the fields of the body's error member.     *)
(***************************************************************************)
MaxDevices == 2

NoBody == [present |-> FALSE, text |-> <<>>]

Body(text) == [present |-> TRUE, text |-> text]

NoOutcome == [type |-> "none", n |-> 0, status |-> 0, reason |-> "", body |-> NoBody, modelOk |-> TRUE]

ErrorBodyTexts ==
    { <<"{", "error", ":", "{", "code", ":", "1", ",", "message", ":", "x", "}", "}">>,
      <<"{", "}">>,
      <<"{", "error", ":", "1", "}">>,
      <<"{", "error", ":", "null", "}">>,
      <<"[", "]">>,
      <<"<html>">>,
      <<>> }

ErrorBodies == {NoBody} \cup {Body(t) : t \in ErrorBodyTexts}

Statuses == {<<404, "Not Found">>, <<500, "Internal Server Error">>}

Outcomes ==
    {[type |-> "ok", n |-> k, status |-> 0, reason |-> "", body |-> NoBody, modelOk |-> TRUE] : k \in 0..MaxDevices}
    \cup {[type |-> "ApiException", n |-> 0, status |-> s[1], reason |-> s[2], body |-> b, modelOk |-> m] :
              s \in Statuses, b \in ErrorBodies, m \in BOOLEAN}
    \cup {[type |-> "Exception", n |-> 0, status |-> 0, reason |-> "", body |-> NoBody, modelOk |-> TRUE]}

\* Call, calling once more when the first call raised
Call_retry(io, requests, request, outcome) ==
    IF outcome.type = "ok"
    THEN Effect(Append(io, Sys("client_call")), Append(requests, request), "none", outcome)
    ELSE Effect(io \o <<Sys("client_call"), Sys("client_call")>>, requests \o <<request, request>>,
                outcome.type, outcome)

\* a client method call appended to an effect in progress
Call(io, requests, request, outcome) ==
    Effect(Append(io, Sys("client_call")), Append(requests, request),
           IF outcome.type = "ok" THEN "none" ELSE outcome.type, outcome)

(***************************************************************************)
(* cli/iot-jobs-cli.py                                                    *)
(***************************************************************************)
\* EnvCheck without the sys.exit(1) after the message
EnvCheck_noexit(host) ==
    IF host = None
    THEN [exit |-> FALSE, io |-> <<Err("env_missing")>>]
    ELSE [exit |-> FALSE, io |-> <<Sys("construct_client")>>]

\* module level: the host check
EnvCheck(host) ==
    IF host = None
    THEN [exit |-> TRUE, io |-> <<Err("env_missing")>>]
    ELSE [exit |-> FALSE, io |-> <<Sys("construct_client")>>]

print_success(model) ==
    IF model THEN <<Out("success"), Out("dump")>> ELSE <<Out("success")>>

\* raised: json.loads, .get, ** or ErrorModel raised after the first line
print_error(e) ==
    LET line == <<Out("api_error_line")>>
        parsed == json_loads(e.body.text)
        error == IF parsed.ok THEN PyGet(parsed.val, "error") ELSE Raise
        fields == IF error.raised THEN Raise
                  ELSE IF error.val = None /\ parsed.val.kind = "dict" /\ "error" \notin DOMAIN parsed.val.members
                       THEN Value(PyDict(EmptyMembers))
                       ELSE error
    IN  IF ~e.body.present THEN [raised |-> FALSE, io |-> line]
        ELSE IF fields.raised \/ fields.val.kind # "dict" \/ ~e.modelOk
             THEN [raised |-> TRUE, io |-> line]
             ELSE [raised |-> FALSE, io |-> line \o <<Err("api_error_body")>>]

\* an exception nobody catches: the interpreter prints the traceback and
\* exits with status 1
Uncaught(io, requests) == Exited(Append(io, Err("traceback")), requests, 1, "uncaught")

\* handle_api_call without the sys.exit(1) after print_error
handle_api_call_noexit(r) ==
    CASE r.raised = "none" -> Exited(r.io, r.requests, 0, "return")
      [] r.raised = "ApiException" ->
            LET pe == print_error(r.exc) IN
            IF pe.raised THEN Uncaught(r.io \o pe.io, r.requests)
            ELSE Exited(r.io \o pe.io, r.requests, 0, "return")
      [] OTHER -> Exited(Append(r.io, Err("unexpected_error")), r.requests, 1, "sys.exit")

handle_api_call(r) ==
    CASE r.raised = "none" -> Exited(r.io, r.requests, 0, "return")
      [] r.raised = "ApiException" ->
            LET pe == print_error(r.exc) IN
            IF pe.raised THEN Uncaught(r.io \o pe.io, r.requests)
            ELSE Exited(r.io \o pe.io, r.requests, 1, "sys.exit")
      [] OTHER -> Exited(Append(r.io, Err("unexpected_error")), r.requests, 1, "sys.exit")

parse_json_str(json_str) ==
    LET r == json_loads(json_str) IN
    IF r.ok THEN [raised |-> "none", val |-> r.val, io |-> <<>>]
    ELSE [raised |-> "SystemExit", val |-> None, io |-> <<Err("invalid_json")>>]

\* an option of the command line: omitted, or given with a text
Omitted == [given |-> FALSE, text |-> <<>>]

Given(text) == [given |-> TRUE, text |-> text]

\* callback=lambda x: parse_json_str(x) if x else None
filter_callback(x) ==
    IF x.given /\ Len(x.text) > 0 THEN parse_json_str(x.text)
    ELSE [raised |-> "none", val |-> None, io |-> <<>>]

\* the generated request models validate their arguments; accept = FALSE is
\* a value the model refuses (pydantic ValidationError)
Construct(accept, model) == IF accept THEN Value(model) ELSE Raise

create_device(imei, accept, outcome) ==
    LET io == <<Out("progress")>>
        post_devices_request == Construct(accept, [kind |-> "PostDevicesRequest", imei |-> imei])
        called == Call(io, <<>>, [method |-> "post_devices", body |-> post_devices_request.val], outcome)
    IN  IF post_devices_request.raised THEN Effect(io, <<>>, "Exception", NoOutcome)
        ELSE IF called.raised # "none" THEN called
        ELSE Effect(called.io \o print_success(TRUE), called.requests, "none", outcome)

get_device(imei, outcome) ==
    LET called == Call(<<Out("progress")>>, <<>>, [method |-> "get_devices_imei", imei |-> imei], outcome)
    IN  IF called.raised # "none" THEN called
        ELSE Effect(called.io \o print_success(TRUE), called.requests, "none", outcome)

delete_device(imei, outcome) ==
    LET called == Call(<<Out("progress")>>, <<>>, [method |-> "delete_devices_imei", imei |-> imei], outcome)
    IN  IF called.raised # "none" THEN called
        ELSE Effect(called.io \o print_success(FALSE), called.requests, "none", outcome)

(***************************************************************************)
(* The filter of devices search.  Each sub-filter is None when its key    *)
(* is not in the filter, else the typed sub-filter of the key's fields.   *)
(***************************************************************************)
ImeiFilter(v) ==
    LET var_in == PyGet(v, "in") IN
    IF var_in.raised THEN Raise
    ELSE Value([kind |-> "ImeiFilter", var_in |-> var_in.val])

\* DateRangeFilter with the two bounds exchanged
DateRangeFilter_swapped(v) ==
    LET gte == PyGet(v, "lte")
        lte == PyGet(v, "gte")
    IN  IF gte.raised \/ lte.raised THEN Raise
        ELSE Value([kind |-> "DateRangeFilter", gte |-> gte.val, lte |-> lte.val])

DateRangeFilter(v) ==
    LET gte == PyGet(v, "gte")
        lte == PyGet(v, "lte")
    IN  IF gte.raised \/ lte.raised THEN Raise
        ELSE Value([kind |-> "DateRangeFilter", gte |-> gte.val, lte |-> lte.val])

LastSeenAtFilter(v) ==
    LET is_empty == PyGet(v, "is_empty")
        gte == PyGet(v, "gte")
        lte == PyGet(v, "lte")
    IN  IF is_empty.raised \/ gte.raised \/ lte.raised THEN Raise
        ELSE Value([kind |-> "LastSeenAtFilter", is_empty |-> is_empty.val, gte |-> gte.val, lte |-> lte.val])

JobQueueFilter(v) ==
    LET is_empty == PyGet(v, "is_empty")
        contains_any == PyGet(v, "contains_any")
    IN  IF is_empty.raised \/ contains_any.raised THEN Raise
        ELSE Value([kind |-> "JobQueueFilter", is_empty |-> is_empty.val, contains_any |-> contains_any.val])

\* SubFilter skipping a key whose value is not an object
SubFilter_lenient(filter, key, accept) ==
    LET present == PyIn(key, filter)
        item == PyGetItem(filter, key)
        built == CASE key = "imei" -> ImeiFilter(item.val)
                   [] key \in {"created_at", "updated_at"} -> DateRangeFilter(item.val)
                   [] key = "last_seen_at" -> LastSeenAtFilter(item.val)
                   [] OTHER -> JobQueueFilter(item.val)
    IN  IF present.raised THEN Raise
        ELSE IF ~present.val THEN Value(None)
        ELSE IF item.raised THEN Raise
        ELSE IF item.val.kind # "dict" THEN Value(None)
        ELSE IF built.raised THEN Raise
        ELSE Construct(accept, built.val)

\* if key in filter: device_search_filter_obj.<key> = <Model>(filter[key].get(..))
SubFilter(filter, key, accept) ==
    LET present == PyIn(key, filter)
        item == PyGetItem(filter, key)
        built == CASE key = "imei" -> ImeiFilter(item.val)
                   [] key \in {"created_at", "updated_at"} -> DateRangeFilter(item.val)
                   [] key = "last_seen_at" -> LastSeenAtFilter(item.val)
                   [] OTHER -> JobQueueFilter(item.val)
    IN  IF present.raised THEN Raise
        ELSE IF ~present.val THEN Value(None)
        ELSE IF item.raised \/ built.raised THEN Raise
        ELSE Construct(accept, built.val)

\* lines 196-226: device_search_filter_obj
BuildFilter(filter, accept) ==
    LET imei == SubFilter(filter, "imei", accept)
        created_at == SubFilter(filter, "created_at", accept)
        updated_at == SubFilter(filter, "updated_at", accept)
        last_seen_at == SubFilter(filter, "last_seen_at", accept)
        job_queue == SubFilter(filter, "job_queue", accept)
    IN  IF imei.raised \/ created_at.raised \/ updated_at.raised \/ last_seen_at.raised \/ job_queue.raised
        THEN Raise
        ELSE Value([kind |-> "DeviceSearchFilter", imei |-> imei.val, created_at |-> created_at.val,
                    updated_at |-> updated_at.val, last_seen_at |-> last_seen_at.val,
                    job_queue |-> job_queue.val])

PostDevicesSearchRequest(filter) == [kind |-> "PostDevicesSearchRequest", filter |-> filter]

\* the result of devices search as it is presented
PresentDevices(n) ==
    IF n > 0 THEN print_success(FALSE) \o [i \in 1..n |-> Out("dump")]
    ELSE <<Out("none_found")>>

\* bool(v)
Truthy(v) ==
    CASE v.kind = "dict" -> DOMAIN v.members # {}
      [] v.kind = "list" -> Len(v.items) > 0
      [] v.kind = "None" -> FALSE
      [] OTHER -> TRUE

\* search_devices testing "if filter:" in place of "if filter is not None:"
search_devices_truthy(filter, accept, outcome) ==
    LET io == <<Out("progress")>>
        device_search_filter_obj == IF Truthy(filter) THEN BuildFilter(filter, accept) ELSE Value(None)
        called == Call(io, <<>>, [method |-> "post_devices_search",
                                  body |-> PostDevicesSearchRequest(device_search_filter_obj.val)], outcome)
    IN  IF device_search_filter_obj.raised THEN Effect(io, <<>>, "Exception", NoOutcome)
        ELSE IF called.raised # "none" THEN called
        ELSE Effect(called.io \o PresentDevices(outcome.n), called.requests, "none", outcome)

search_devices(filter, accept, outcome) ==
    LET io == <<Out("progress")>>
        device_search_filter_obj == IF filter # None THEN BuildFilter(filter, accept) ELSE Value(None)
        called == Call(io, <<>>, [method |-> "post_devices_search",
                                  body |-> PostDevicesSearchRequest(device_search_filter_obj.val)], outcome)
    IN  IF device_search_filter_obj.raised THEN Effect(io, <<>>, "Exception", NoOutcome)
        ELSE IF called.raised # "none" THEN called
        ELSE Effect(called.io \o PresentDevices(outcome.n), called.requests, "none", outcome)

(***************************************************************************)
(* cli/iot-jobs-mongodb-cli.py.  Every command echoes its progress line,  *)
(* then runs its request inside its own try with the same two handlers.   *)
(***************************************************************************)
\* except ApiException / except Exception of a command, around its try body
MongoHandlers(r) ==
    CASE r.raised = "none" -> Exited(r.io, r.requests, 0, "return")
      [] r.raised = "ApiException" -> Exited(Append(r.io, Err("api_error")), r.requests, 1, "sys.exit")
      [] OTHER -> Exited(Append(r.io, Err("unexpected_error")), r.requests, 1, "sys.exit")

\* Confirmed echoing the confirmation before the call
Confirmed_early(request, outcome) ==
    Call(<<Out("progress"), Out("success")>>, <<>>, request, outcome)

\* a try body that calls one method and echoes a confirmation
Confirmed(request, outcome) ==
    LET called == Call(<<Out("progress")>>, <<>>, request, outcome) IN
    IF called.raised # "none" THEN called
    ELSE Effect(Append(called.io, Out("success")), called.requests, "none", outcome)

\* a try body that calls one method and echoes what it returned: a heading
\* and dumps dumped elements, or that there is nothing
Listed(request, outcome, dumps) ==
    LET called == Call(<<Out("progress")>>, <<>>, request, outcome) IN
    IF called.raised # "none" THEN called
    ELSE IF outcome.n > 0
         THEN Effect(called.io \o <<Out("success")>> \o [i \in 1..dumps |-> Out("dump")], called.requests, "none", outcome)
         ELSE Effect(Append(called.io, Out("none_found")), called.requests, "none", outcome)

create_collection(collection_name, accept, outcome) ==
    LET post_collections_request == Construct(accept, [kind |-> "PostCollectionsRequest", collection_name |-> collection_name])
    IN  IF post_collections_request.raised
        THEN MongoHandlers(Effect(<<Out("progress")>>, <<>>, "Exception", NoOutcome))
        ELSE MongoHandlers(Confirmed([method |-> "post_collections", body |-> post_collections_request.val], outcome))

delete_collection(collection_name, outcome) ==
    MongoHandlers(Confirmed([method |-> "delete_collections", collection_name |-> collection_name], outcome))

get_collection_indexes(collection_name, outcome) ==
    MongoHandlers(Listed([method |-> "get_collections_index", collection_name |-> collection_name], outcome, outcome.n))

create_collection_index(collection_name, key, unique, accept, outcome) ==
    LET post_collections_index_request == Construct(accept, [kind |-> "PostCollectionsIndexRequest", key |-> key, unique |-> unique])
    IN  IF post_collections_index_request.raised
        THEN MongoHandlers(Effect(<<Out("progress")>>, <<>>, "Exception", NoOutcome))
        ELSE MongoHandlers(Confirmed([method |-> "post_collections_index", collection_name |-> collection_name,
                                      body |-> post_collections_index_request.val], outcome))

delete_collection_index(collection_name, index_name, outcome) ==
    MongoHandlers(Confirmed([method |-> "delete_collections_index", collection_name |-> collection_name,
                             index_name |-> index_name], outcome))

get_collection_validator(collection_name, outcome) ==
    MongoHandlers(Listed([method |-> "get_collections_validator", collection_name |-> collection_name], outcome, 1))

update_collection_validator(collection_name, validator, validation_level, validation_action, accept, outcome) ==
    LET put_collections_validator_request ==
            Construct(accept, [kind |-> "PutCollectionsValidatorRequest", validator |-> validator,
                               validation_level |-> validation_level, validation_action |-> validation_action])
    IN  IF put_collections_validator_request.raised
        THEN MongoHandlers(Effect(<<Out("progress")>>, <<>>, "Exception", NoOutcome))
        ELSE MongoHandlers(Confirmed([method |-> "put_collections_validator", collection_name |-> collection_name,
                                      body |-> put_collections_validator_request.val], outcome))

get_collection_validator_summary(collection_name, outcome) ==
    MongoHandlers(Listed([method |-> "get_collections_validator_validation_error_summary",
                          collection_name |-> collection_name], outcome, 1))

\* callback=lambda x: json.loads(x)
json_callback(x) ==
    LET r == json_loads(x.text) IN
    IF r.ok THEN [raised |-> "none", val |-> r.val] ELSE [raised |-> "Exception", val |-> None]

\* a string option with a default: the text given, else the default
StrOption(x, default) == IF x.given THEN x.text[1] ELSE default

\* validation_level_option with the default "off"
validation_level_option_off(x) == StrOption(x, "off")

validation_level_option(x) == StrOption(x, "strict")

validation_action_option(x) == StrOption(x, "error")

(***************************************************************************)
(* app(): the command line is bound (the callbacks of the JSON options    *)
(* run here), then the command function is called.                        *)
(***************************************************************************)
\* prefix an outcome of the process with what came before it
After(io, e) == Exited(io \o e.io, e.requests, e.code, e.via)

Bound == <<Sys("bind_args")>>

RunCreateDevice(imei, accept, outcome) == After(Bound, handle_api_call(create_device(imei, accept, outcome)))

RunGetDevice(imei, outcome) == After(Bound, handle_api_call(get_device(imei, outcome)))

RunDeleteDevice(imei, outcome) == After(Bound, handle_api_call(delete_device(imei, outcome)))

RunSearchDevices(filter, accept, outcome) ==
    LET bound == filter_callback(filter) IN
    IF bound.raised = "SystemExit" THEN Exited(Bound \o bound.io, <<>>, 1, "sys.exit")
    ELSE After(Bound, handle_api_call(search_devices(bound.val, accept, outcome)))

RunCreateIndex(collection_name, key, unique, accept, outcome) ==
    LET bound == json_callback(key) IN
    IF bound.raised # "none" THEN Uncaught(Bound, <<>>)
    ELSE After(Bound, create_collection_index(collection_name, bound.val, unique, accept, outcome))

RunUpdateValidator(collection_name, validator, validation_level, validation_action, accept, outcome) ==
    LET bound == json_callback(validator) IN
    IF bound.raised # "none" THEN Uncaught(Bound, <<>>)
    ELSE After(Bound, update_collection_validator(collection_name, bound.val,
                          validation_level_option(validation_level),
                          validation_action_option(validation_action), accept, outcome))

(***************************************************************************)
(* The command lines tried.                                               *)
(***************************************************************************)
RECURSIVE MembersText(_, _, _)
\* the members of a JSON object text; a pair with no value text is left out
MembersText(pairs, i, first) ==
    IF i > Len(pairs) THEN <<>>
    ELSE IF pairs[i][2] = <<>> THEN MembersText(pairs, i + 1, first)
    ELSE (IF first THEN <<>> ELSE <<",">>) \o <<pairs[i][1], ":">> \o pairs[i][2]
         \o MembersText(pairs, i + 1, FALSE)

ObjectText(pairs) == <<"{">> \o MembersText(pairs, 1, TRUE) \o <<"}">>

ImeiTexts == {<<>>, <<"{", "}">>, <<"{", "in", ":", "[", "x", "]", "}">>, <<"1">>}

CreatedAtTexts == {<<>>, <<"{", "gte", ":", "d1", "}">>, <<"{", "gte", ":", "d1", ",", "lte", ":", "d2", "}">>, <<"x">>}

UpdatedAtTexts == {<<>>, <<"{", "lte", ":", "d2", "}">>, <<"[", "]">>}

LastSeenAtTexts == {<<>>, <<"{", "is_empty", ":", "true", ",", "gte", ":", "d1", "}">>, <<"true">>}

JobQueueTexts == {<<>>, <<"{", "contains_any", ":", "[", "x", "]", ",", "zzz", ":", "1", "}">>, <<"null">>}

UnknownTexts == {<<>>, <<"{", "in", ":", "[", "x", "]", "}">>}

ObjectFilterTexts ==
    {ObjectText(<<<<"zzz", u>>, <<"imei", a>>, <<"created_at", b>>, <<"updated_at", c>>,
                  <<"last_seen_at", d>>, <<"job_queue", e>>>>) :
        u \in UnknownTexts, a \in ImeiTexts, b \in CreatedAtTexts, c \in UpdatedAtTexts,
        d \in LastSeenAtTexts, e \in JobQueueTexts}

OtherFilterTexts ==
    { <<>>, <<"{">>, <<"{", "imei", ":">>, <<"{", "imei", ":", "{", "}", ",", "}">>, <<"{", "}", "}">>,
      <<"<html>">>, <<"1">>, <<"true">>, <<"null">>, <<"x">>, <<"imei">>, <<"[", "]">>, <<"[", "imei", "]">> }

FilterOptions == {Omitted} \cup {Given(t) : t \in ObjectFilterTexts \cup OtherFilterTexts}

KeyOptions ==
    {Given(t) : t \in { <<"{", "name", ":", "ASCENDING", "}">>, <<"{", "}">>, <<"1">>, <<>>, <<"{">>,
                        <<"{", "name", ":", "}">>, <<"name", ":", "ASCENDING">> }}

ValidatorOptions ==
    {Given(t) : t \in { <<"{", "name", ":", "{", "code", ":", "x", "}", "}">>, <<"{", "}">>, <<"null">>, <<>>,
                        <<"{", "name">>, <<"<html>">> }}

LevelOptions == {Omitted} \cup {Given(<<l>>) : l \in {"off", "strict", "moderate", ""}}

ActionOptions == {Omitted} \cup {Given(<<a>>) : a \in {"error", "warn", ""}}

Imeis == {"123456789012345", "355"}

CollectionNames == {"jobs"}

IndexNames == {"name_1"}

NoArgv == [arg |-> "", index_name |-> "", unique |-> FALSE, filter |-> Omitted, key |-> Omitted,
           validator |-> Omitted, validation_level |-> Omitted, validation_action |-> Omitted]

(***************************************************************************)
(* The process.                                                           *)
(***************************************************************************)
VARIABLES
    cli,        \* which program runs: "devices" or "mongodb"
    host,       \* API_CLIENT_HOST after load_dotenv(): None or a str
    pc,         \* "start", "main" (module level done, app() not yet run), "exited"
    cmd,        \* the subcommand run
    argv,       \* its arguments and options as given
    io,         \* what was emitted, in order
    requests,   \* the client method calls made, in order
    outcome,    \* what the client call did (NoOutcome when none was made)
    exitCode,   \* the exit status; -1 while running
    exitVia     \* "sys.exit", "return" (app() returned), "uncaught", or "" while running

vars == <<cli, host, pc, cmd, argv, io, requests, outcome, exitCode, exitVia>>

Init ==
    /\ cli \in {"devices", "mongodb"}
    /\ host \in {None, PyStr("http://localhost:8000")}
    /\ pc = "start"
    /\ cmd = ""
    /\ argv = NoArgv
    /\ io = <<>>
    /\ requests = <<>>
    /\ outcome = NoOutcome
    /\ exitCode = -1
    /\ exitVia = ""

\* module level of either program: load_dotenv, the host check, the client
Startup ==
    /\ pc = "start"
    /\ LET check == EnvCheck(host) IN
       /\ io' = check.io
       /\ pc' = IF check.exit THEN "exited" ELSE "main"
       /\ exitCode' = IF check.exit THEN 1 ELSE exitCode
       /\ exitVia' = IF check.exit THEN "sys.exit" ELSE exitVia
    /\ UNCHANGED <<cli, host, cmd, argv, requests, outcome>>

\* app() ran command c with arguments a and ended as e
Finish(c, a, e, o) ==
    /\ cmd' = c
    /\ argv' = a
    /\ io' = io \o e.io
    /\ requests' = e.requests
    /\ outcome' = IF e.requests = <<>> THEN NoOutcome ELSE o
    /\ exitCode' = e.code
    /\ exitVia' = e.via
    /\ pc' = "exited"
    /\ UNCHANGED <<cli, host>>

DevicesCreate ==
    /\ pc = "main" /\ cli = "devices"
    /\ \E imei \in Imeis, accept \in BOOLEAN, o \in Outcomes :
           Finish("devices create", [NoArgv EXCEPT !.arg = imei], RunCreateDevice(imei, accept, o), o)

DevicesGet ==
    /\ pc = "main" /\ cli = "devices"
    /\ \E imei \in Imeis, o \in Outcomes :
           Finish("devices get", [NoArgv EXCEPT !.arg = imei], RunGetDevice(imei, o), o)

DevicesDelete ==
    /\ pc = "main" /\ cli = "devices"
    /\ \E imei \in Imeis, o \in Outcomes :
           Finish("devices delete", [NoArgv EXCEPT !.arg = imei], RunDeleteDevice(imei, o), o)

DevicesSearch ==
    /\ pc = "main" /\ cli = "devices"
    /\ \E filter \in FilterOptions, accept \in BOOLEAN, o \in Outcomes :
           Finish("devices search", [NoArgv EXCEPT !.filter = filter], RunSearchDevices(filter, accept, o), o)

CollectionCreate ==
    /\ pc = "main" /\ cli = "mongodb"
    /\ \E name \in CollectionNames, accept \in BOOLEAN, o \in Outcomes :
           Finish("collection create", [NoArgv EXCEPT !.arg = name],
                  After(Bound, create_collection(name, accept, o)), o)

CollectionDelete ==
    /\ pc = "main" /\ cli = "mongodb"
    /\ \E name \in CollectionNames, o \in Outcomes :
           Finish("collection delete", [NoArgv EXCEPT !.arg = name],
                  After(Bound, delete_collection(name, o)), o)

IndexGet ==
    /\ pc = "main" /\ cli = "mongodb"
    /\ \E name \in CollectionNames, o \in Outcomes :
           Finish("index get", [NoArgv EXCEPT !.arg = name],
                  After(Bound, get_collection_indexes(name, o)), o)

IndexCreate ==
    /\ pc = "main" /\ cli = "mongodb"
    /\ \E name \in CollectionNames, key \in KeyOptions, unique \in BOOLEAN, accept \in BOOLEAN, o \in Outcomes :
           Finish("index create", [NoArgv EXCEPT !.arg = name, !.key = key, !.unique = unique],
                  RunCreateIndex(name, key, unique, accept, o), o)

IndexDelete ==
    /\ pc = "main" /\ cli = "mongodb"
    /\ \E name \in CollectionNames, index_name \in IndexNames, o \in Outcomes :
           Finish("index delete", [NoArgv EXCEPT !.arg = name, !.index_name = index_name],
                  After(Bound, delete_collection_index(name, index_name, o)), o)

ValidatorGet ==
    /\ pc = "main" /\ cli = "mongodb"
    /\ \E name \in CollectionNames, o \in Outcomes :
           Finish("validator get", [NoArgv EXCEPT !.arg = name],
                  After(Bound, get_collection_validator(name, o)), o)

ValidatorUpdate ==
    /\ pc = "main" /\ cli = "mongodb"
    /\ \E name \in CollectionNames, validator \in ValidatorOptions, level \in LevelOptions,
          action \in ActionOptions, accept \in BOOLEAN, o \in Outcomes :
           Finish("validator update",
                  [NoArgv EXCEPT !.arg = name, !.validator = validator, !.validation_level = level,
                                 !.validation_action = action],
                  RunUpdateValidator(name, validator, level, action, accept, o), o)

ValidatorSummary ==
    /\ pc = "main" /\ cli = "mongodb"
    /\ \E name \in CollectionNames, o \in Outcomes :
           Finish("validator summary", [NoArgv EXCEPT !.arg = name],
                  After(Bound, get_collection_validator_summary(name, o)), o)

Next ==
    \/ Startup
    \/ DevicesCreate
    \/ DevicesGet
    \/ DevicesDelete
    \/ DevicesSearch
    \/ CollectionCreate
    \/ CollectionDelete
    \/ IndexGet
    \/ IndexCreate
    \/ IndexDelete
    \/ ValidatorGet
    \/ ValidatorUpdate
    \/ ValidatorSummary

Spec == Init /\ [][Next]_vars

(***************************************************************************)
(* Vocabulary of the properties.                                          *)
(***************************************************************************)
Emitted(e) == \E i \in 1..Len(io) : io[i] = e

Success == Emitted(Out("success"))

NoneFound == Emitted(Out("none_found"))

FailureReports == {"api_error_line", "api_error_body", "api_error", "unexpected_error"}

Failure == \E i \in 1..Len(io) : io[i].what \in FailureReports

BodyReached == Emitted(Out("progress"))

\* the one client call was made and returned normally
CallReturned == Len(requests) = 1 /\ outcome.type = "ok"

\* the --filter text as JSON
FilterJson == json_loads(argv.filter.text)

\* a value's member, None when it has none of that name
Member(obj, name) == IF name \in DOMAIN obj.members THEN obj.members[name] ELSE None

\* C1: every subcommand that ran ends with exit status 0 when its client
\* call returned normally and the result was presented, and with exit status
\* 1 when its body raised, also when formatting the API error raised.
C1_ExitStatus ==
    pc = "exited" /\ BodyReached =>
        /\ exitCode = (IF CallReturned THEN 0 ELSE 1)
        /\ (CallReturned => Success \/ NoneFound)
        /\ (outcome.type = "ApiException" /\ outcome.body.present /\ ~json_loads(outcome.body.text).ok
                => exitCode = 1)

C1_Witness ==
    /\ pc = "exited" /\ cmd = "devices get"
    /\ outcome.type = "ApiException" /\ outcome.body = Body(<<"<html>">>)
    /\ exitVia = "uncaught" /\ exitCode = 1

\* C2: a --filter, --key or --validator text that is not well-formed JSON,
\* the empty string included, makes no client call, exits with status 1 and
\* emits no success message.
C2_MalformedJsonIsLocal ==
    /\ pc = "exited"
    /\ \/ cmd = "devices search" /\ argv.filter.given /\ ~json_loads(argv.filter.text).ok
       \/ cmd = "index create" /\ argv.key.given /\ ~json_loads(argv.key.text).ok
       \/ cmd = "validator update" /\ argv.validator.given /\ ~json_loads(argv.validator.text).ok
    => requests = <<>> /\ exitCode = 1 /\ ~Success

\* C3: at most one client call per run, made after the command line was
\* bound and its JSON options were found well-formed; exit status 0 means
\* exactly one call; nothing is called again after a failure.
C3_SingleCall ==
    /\ Len(requests) <= 1
    /\ Cardinality({i \in 1..Len(io) : io[i] = Sys("client_call")}) = Len(requests)
    /\ \A i \in 1..Len(io) : io[i] = Sys("client_call") =>
           /\ \E j \in 1..(i - 1) : io[j] = Sys("bind_args")
           /\ \A j \in 1..(i - 1) : io[j].what \notin FailureReports \cup {"invalid_json", "traceback"}
    /\ (Len(requests) = 1 =>
           /\ (argv.filter.given /\ Len(argv.filter.text) > 0 => json_loads(argv.filter.text).ok)
           /\ (argv.key.given => json_loads(argv.key.text).ok)
           /\ (argv.validator.given => json_loads(argv.validator.text).ok))
    /\ (exitCode = 0 => Len(requests) = 1)

C3_Witness ==
    /\ pc = "exited" /\ cmd = "validator update" /\ exitCode = 0 /\ Len(requests) = 1
    /\ io[Len(io)] = Out("success")

\* the error body of an API error is a JSON object whose error member is an
\* object that the error model accepts
JsonErrorBody ==
    /\ outcome.type = "ApiException" /\ outcome.body.present /\ outcome.modelOk
    /\ json_loads(outcome.body.text).ok
    /\ json_loads(outcome.body.text).val.kind = "dict"
    /\ Member(json_loads(outcome.body.text).val, "error").kind = "dict"

\* C4: in the devices program an API error with status, reason and JSON
\* error body is reported on standard error only, the status and reason line
\* before the body, and the exit status is 1.
C4_ApiErrorOnStderr ==
    pc = "exited" /\ cli = "devices" /\ JsonErrorBody =>
        /\ exitCode = 1
        /\ \E i, j \in 1..Len(io) :
               i < j /\ io[i] = Err("api_error_line") /\ io[j] = Err("api_error_body")
        /\ \A i \in 1..Len(io) : io[i].what \in FailureReports => io[i].ch = "stderr"

EmptyDeviceSearchFilter ==
    [kind |-> "DeviceSearchFilter", imei |-> None, created_at |-> None, updated_at |-> None,
     last_seen_at |-> None, job_queue |-> None]

\* devices search made its client call with a --filter that is a JSON object
SearchedWithObject ==
    /\ pc = "exited" /\ cmd = "devices search" /\ Len(requests) = 1
    /\ argv.filter.given /\ FilterJson.ok /\ FilterJson.val.kind = "dict"

\* C5 as stated: the request of a --filter object with no recognized key is
\* the request submitted when --filter is omitted.
C5_SameAsOmitted ==
    SearchedWithObject /\ DOMAIN FilterJson.val.members \cap RecognizedKeys = {}
        => requests[1].body = PostDevicesSearchRequest(None)

\* C5 amended: with --filter omitted the request's filter is unset; with a
\* --filter object that has no recognized key, {} included, the request
\* carries a device search filter whose five sub-filters are all absent.
C5_UnsetOrEmptyFilter ==
    /\ (pc = "exited" /\ cmd = "devices search" /\ Len(requests) = 1 /\ ~argv.filter.given
            => requests[1].body = PostDevicesSearchRequest(None))
    /\ (SearchedWithObject /\ DOMAIN FilterJson.val.members \cap RecognizedKeys = {}
            => requests[1].body = PostDevicesSearchRequest(EmptyDeviceSearchFilter))

C5_Witness ==
    /\ SearchedWithObject
    /\ argv.filter.text = <<"{", "}">>
    /\ requests[1].body.filter = EmptyDeviceSearchFilter

\* C6: for a --filter object whose recognized keys map to objects, each of
\* the five sub-filters is present exactly when its key is in the input, its
\* fields are the input's values with missing ones unset, and keys that are
\* not recognized change nothing.
C6_FilterBuilt ==
    SearchedWithObject
    /\ (\A k \in DOMAIN FilterJson.val.members \cap RecognizedKeys : FilterJson.val.members[k].kind = "dict")
    => LET m == FilterJson.val.members
           f == requests[1].body.filter
       IN  /\ f.kind = "DeviceSearchFilter"
           /\ f.imei =
                  (IF "imei" \in DOMAIN m
                   THEN [kind |-> "ImeiFilter", var_in |-> Member(m["imei"], "in")] ELSE None)
           /\ f.created_at =
                  (IF "created_at" \in DOMAIN m
                   THEN [kind |-> "DateRangeFilter", gte |-> Member(m["created_at"], "gte"),
                         lte |-> Member(m["created_at"], "lte")] ELSE None)
           /\ f.updated_at =
                  (IF "updated_at" \in DOMAIN m
                   THEN [kind |-> "DateRangeFilter", gte |-> Member(m["updated_at"], "gte"),
                         lte |-> Member(m["updated_at"], "lte")] ELSE None)
           /\ f.last_seen_at =
                  (IF "last_seen_at" \in DOMAIN m
                   THEN [kind |-> "LastSeenAtFilter", is_empty |-> Member(m["last_seen_at"], "is_empty"),
                         gte |-> Member(m["last_seen_at"], "gte"),
                         lte |-> Member(m["last_seen_at"], "lte")] ELSE None)
           /\ f.job_queue =
                  (IF "job_queue" \in DOMAIN m
                   THEN [kind |-> "JobQueueFilter", is_empty |-> Member(m["job_queue"], "is_empty"),
                         contains_any |-> Member(m["job_queue"], "contains_any")] ELSE None)

C6_Witness ==
    /\ SearchedWithObject
    /\ argv.filter.text = <<"{", "zzz", ":", "{", "in", ":", "[", "x", "]", "}", ",",
                            "imei", ":", "{", "in", ":", "[", "x", "]", "}", "}">>
    /\ requests[1].body.filter =
           [EmptyDeviceSearchFilter EXCEPT !.imei = [kind |-> "ImeiFilter", var_in |-> PyList(<<PyStr("x")>>)]]

\* C7: without API_CLIENT_HOST either program writes one message to standard
\* error and exits with status 1, having bound no command line, constructed
\* no client, called nothing and run no subcommand.
C7_MissingHost ==
    host = None /\ pc # "start" =>
        /\ pc = "exited" /\ exitCode = 1
        /\ io = <<Err("env_missing")>>
        /\ requests = <<>> /\ cmd = ""

C7_Witness == host = None /\ pc = "exited" /\ exitCode = 1 /\ Len(io) = 1

\* C8: no run emits both a success confirmation and a failure report, and a
\* run that reached the command body emits a success confirmation, a failure
\* report or the "none found" message.
C8_OneOutcome ==
    /\ ~(Success /\ Failure)
    /\ ~(NoneFound /\ Failure)
    /\ (pc = "exited" /\ BodyReached => Success \/ Failure \/ NoneFound)

C8_Witness ==
    /\ pc = "exited" /\ cmd = "collection create" /\ outcome.type = "ApiException"
    /\ Failure /\ ~Success /\ exitCode = 1

\* C9: validator update submits validation level "strict" and validation
\* action "error" when the options are omitted, the given values otherwise,
\* and the parsed --validator JSON as the validator document.
C9_ValidatorRequest ==
    pc = "exited" /\ cmd = "validator update" /\ Len(requests) = 1 =>
        /\ requests[1].body.validation_level =
               (IF argv.validation_level.given THEN argv.validation_level.text[1] ELSE "strict")
        /\ requests[1].body.validation_action =
               (IF argv.validation_action.given THEN argv.validation_action.text[1] ELSE "error")
        /\ json_loads(argv.validator.text).ok
        /\ requests[1].body.validator = json_loads(argv.validator.text).val

C9_Witness ==
    /\ pc = "exited" /\ cmd = "validator update" /\ Len(requests) = 1
    /\ ~argv.validation_level.given /\ ~argv.validation_action.given
    /\ requests[1].body.validation_level = "strict" /\ requests[1].body.validation_action = "error"
    /\ requests[1].body.validator.kind = "dict"

\* C10: a --filter object in which a present recognized key maps to a value
\* that is not an object fails locally: no client call, an "Unexpected error"
\* message on standard error, exit status 1.
C10_NonObjectSubFilter ==
    /\ pc = "exited" /\ cmd = "devices search"
    /\ argv.filter.given /\ FilterJson.ok /\ FilterJson.val.kind = "dict"
    /\ \E k \in DOMAIN FilterJson.val.members \cap RecognizedKeys : FilterJson.val.members[k].kind # "dict"
    => /\ requests = <<>>
       /\ exitCode = 1
       /\ io[Len(io)] = Err("unexpected_error")
       /\ ~Success /\ ~NoneFound

C10_Witness ==
    /\ pc = "exited" /\ cmd = "devices search"
    /\ argv.filter.text = <<"{", "job_queue", ":", "null", "}">>
    /\ requests = <<>> /\ exitCode = 1 /\ io[Len(io)] = Err("unexpected_error")

====
